---- MODULE Spec2Model ----
(***************************************************************************)
(* Model of save_data_gi.py: the TCP session loop that decodes JSON chunks *)
(* from the reactor controller and writes experiments, reagents and        *)
(* sensor_log rows through one sqlite3 connection.                         *)
(*                                                                         *)
(* One step of the model is one iteration of the `while True` loop: the    *)
(* recv, the decode and the whole handler that the chunk selects, with     *)
(* every execute and commit it performs, or the except clause that ends    *)
(* the iteration early.                                                    *)
(***************************************************************************)
EXTENDS Integers, Sequences, FiniteSets, TLC

(***************************************************************************)
(* Bounds of the model.                                                    *)
(***************************************************************************)
\* number of chunks the transport delivers in one session
MaxChunks == 4
\* number of seconds the wall clock advances during one session
MaxNow == 1

(***************************************************************************)
(* Python / JSON / SQL values.  None is Python's None, JSON's null and     *)
(* SQL's NULL (sqlite3 binds None as NULL and returns NULL as None).       *)
(***************************************************************************)
None == [none |-> TRUE]
Str(s) == [str |-> s]
Num(n) == [num |-> n]

\* Python truthiness of a value, as tested by `if current_exp_number:`.
\* (variant: the test written as a comparison with "", which None passes)
TruthyNotEmpty(v) == v # Str("") /\ v # Num(0)
Truthy(v) == v # None /\ v # Str("") /\ v # Num(0)

\* `key in obj` for a JSON object (a dict), modelled as a TLA+ record.
Has(obj, key) == key \in DOMAIN obj

\* dict.get(key): the value, or None when the key is absent.
Get(obj, key) == IF key \in DOMAIN obj THEN obj[key] ELSE None

(***************************************************************************)
(* datetime('now'): the clock rendered as fixed-width text, most           *)
(* significant digit first ("YYYY-MM-DD HH:MM:SS"); two digits stand for   *)
(* the nineteen characters.  The session starts at second 9 so that the    *)
(* rendering crosses a digit boundary.  TEXT columns compare left to       *)
(* right, character by character.                                          *)
(***************************************************************************)
DatetimeNow(n) == [ts |-> <<(9 + n) \div 10, (9 + n) % 10>>]

RECURSIVE SeqLeq(_, _)
SeqLeq(a, b) ==
    IF a = <<>> THEN TRUE
    ELSE IF b = <<>> THEN FALSE
    ELSE IF Head(a) < Head(b) THEN TRUE
    ELSE IF Head(a) > Head(b) THEN FALSE
    ELSE SeqLeq(Tail(a), Tail(b))

\* SQL's  a <= b  on two non-NULL datetime texts.
TextLeq(a, b) == SeqLeq(a.ts, b.ts)

(***************************************************************************)
(* The messages the controller can send (section 6 of the specification    *)
(* gives their shapes; the code accepts any JSON object).                  *)
(***************************************************************************)
ExpNos == {Str("RX-1"), Str("RX-2"), Str(""), None}

R1 == [name |-> Str("H2O2"), concentration |-> Num(5)]
R2 == [name |-> Str("NaOH")]
RNoName == [concentration |-> Num(1)]

SetupMsg(exp) == [type |-> Str("setup"), experiment |-> exp]

\* every identity, with no reagent list, an empty one and one of two entries
ValidSetups ==
    {SetupMsg([expNo |-> e, operator |-> Str("alice"), description |-> Str("run")]) :
        e \in {Str("RX-1"), Str(""), None}}
    \cup
    {SetupMsg([expNo |-> Str("RX-2"), operator |-> Str("alice"), description |-> Str("run"),
               reagents |-> <<>>]),
     SetupMsg([expNo |-> Str("RX-1"), operator |-> Str("bob"), description |-> Str("rerun"),
               reagents |-> <<R1, R2>>])}

\* a reagent without a name, no operator, no description, no expNo, no experiment
InvalidSetups ==
    {SetupMsg([expNo |-> Str("RX-1"), operator |-> Str("alice"), description |-> Str("run"),
               reagents |-> <<R1, RNoName>>]),
     SetupMsg([expNo |-> Str("RX-2"), description |-> Str("run")]),
     SetupMsg([expNo |-> Str("RX-1"), operator |-> Str("alice")]),
     SetupMsg([operator |-> Str("alice"), description |-> Str("run")]),
     [type |-> Str("setup")]}

StopMsg == [type |-> Str("stop")]

\* every channel field, under a type that is neither "setup" nor "stop"
FullSample ==
    [type |-> Str("sample"),
     temp |-> Num(25), uv1 |-> Num(1), photodiode |-> Num(2), turbidity |-> Num(3),
     turbidity2 |-> Num(4), rgb1_r |-> Num(5), rgb1_g |-> Num(6), rgb1_b |-> Num(7),
     rgb2_r |-> Num(8), rgb2_g |-> Num(9), rgb2_b |-> Num(10), uvLed |-> Num(1),
     uvIntensity |-> Num(11), pump |-> Num(1), pump2 |-> Num(0), pumpSpeed |-> Num(12),
     flowRate |-> Num(13)]

\* one field, every field, and no field the handler knows
SampleMsgs == {[temp |-> Num(25)], FullSample, [bogus |-> Num(1)]}

Messages == ValidSetups \cup InvalidSetups \cup {StopMsg} \cup SampleMsgs

(***************************************************************************)
(* A chunk is what one recv returns, described by what decode, strip,      *)
(* startswith and json.loads make of it:                                   *)
(*   noise      text that does not start with "{" after trimming           *)
(*   malformed  text that starts with "{" and is not JSON ("{not json")    *)
(*   objects    the JSON texts of one or more objects, one after another   *)
(*   head       the first part of the text of message `of`, cut by the     *)
(*              transport after the "{" and before the end ('{"temp":')     *)
(*   tail       the rest of that text ('25}')                              *)
(* Bytes that are not UTF-8 make decode raise, which ends the iteration as  *)
(* malformed text does.                                                    *)
(***************************************************************************)
\* the message the transport delivers in two reads: its text has no inner
\* object, so its second part never starts with "{"
SplitMsgs == {[temp |-> Num(25)]}

Chunks ==
    {[k |-> "noise"], [k |-> "malformed"]}
    \cup {[k |-> "objects", objs |-> <<m>>] : m \in Messages}
    \cup {[k |-> "objects", objs |-> <<StopMsg, [temp |-> Num(25)]>>]}
    \cup {[k |-> h, of |-> m] : h \in {"head", "tail"}, m \in SplitMsgs}

\* line.startswith("{")
StartsWithBrace(chunk) == chunk.k \in {"malformed", "objects", "head"}

\* json.loads(line) returns (it raises on anything but exactly one JSON value)
\* (variant: a decoder that stops after the first object, as raw_decode does)
LoadsFirstObject(chunk) == chunk.k = "objects"
Loads(chunk) == chunk.k = "objects" /\ Len(chunk.objs) = 1

VARIABLES
    experiments,         \* table experiments as this connection sees it
    reagents,            \* table reagents as this connection sees it
    sensor_log,          \* table sensor_log as this connection sees it
    committed,           \* the three tables as of the last conn.commit()
    current_exp_number,  \* the tracker's current identity
    line,                \* the chunk of the current iteration, decoded and trimmed
    out,                 \* how the iteration ended: the branch taken or the error printed
    pc,                  \* "loop", "closed" (after the break) or "crashed"
    conn_sock,           \* the accepted socket: "open" or "closed"
    conn,                \* the sqlite3 connection: "open" or "closed"
    transport,           \* the peer's side: "open", "eof" or "reset"
    store_up,            \* whether the store answers
    now,                 \* the wall clock, in seconds since the session began
    nrecv,               \* chunks received so far
    replaced             \* history: the experiments rows (by position) that were
                         \* open under the current identity when a Setup with a
                         \* new identity replaced it

vars == <<experiments, reagents, sensor_log, committed, current_exp_number, line,
          out, pc, conn_sock, conn, transport, store_up, now, nrecv, replaced>>

tables == <<experiments, reagents, sensor_log>>

View == [experiments |-> experiments, reagents |-> reagents, sensor_log |-> sensor_log]

Init ==
    /\ experiments = <<>>
    /\ reagents = <<>>
    /\ sensor_log = <<>>
    /\ committed = [experiments |-> <<>>, reagents |-> <<>>, sensor_log |-> <<>>]
    /\ current_exp_number = None
    /\ line = [k |-> "none"]
    /\ out = "connected"
    /\ pc = "loop"
    /\ conn_sock = "open"
    /\ conn = "open"
    /\ transport = "open"
    /\ store_up = TRUE
    /\ now = 0
    /\ nrecv = 0
    /\ replaced = {}

(***************************************************************************)
(* The store: what the SQL statements of the handlers do to the tables.    *)
(* A table is the sequence of its rows in id order (AUTOINCREMENT).        *)
(***************************************************************************)

\* The UNIQUE constraint on experiments.exp_number refuses the INSERT.
\* SQLite, like SQL, never takes two NULLs to be equal.
UniqueViolation(exps, e) ==
    e # None /\ \E i \in DOMAIN exps : exps[i].exp_number = e

\* INSERT INTO experiments (exp_number, operator, description, start_time)
InsertExperiment(exps, e, o, d, t) ==
    Append(exps, [exp_number |-> e, operator |-> o, description |-> d,
                  start_time |-> t, end_time |-> None])

\* UPDATE experiments SET end_time = datetime('now') WHERE exp_number = ?
UpdateEndTime(exps, e, t) ==
    [i \in DOMAIN exps |->
        IF e # None /\ exps[i].exp_number = e
        THEN [exps[i] EXCEPT !.end_time = t]
        ELSE exps[i]]

\* The row of one entry of the reagent list.
\* (variant: r.get("concentration", 0))
ReagentRowZeroDefault(e, r) ==
    [exp_number |-> e, reagent |-> r.name,
     concentration |-> IF Has(r, "concentration") THEN r.concentration ELSE Num(0)]
ReagentRow(e, r) ==
    [exp_number |-> e, reagent |-> r.name, concentration |-> Get(r, "concentration")]

\* How many entries of the list the for loop inserts before r["name"] raises.
NamedPrefix(rs) ==
    CHOOSE k \in 0..Len(rs) :
        /\ \A i \in 1..k : Has(rs[i], "name")
        /\ k = Len(rs) \/ ~Has(rs[k + 1], "name")

InsertReagents(rgs, e, rs, k) == rgs \o [i \in 1..k |-> ReagentRow(e, rs[i])]

\* The row of one sample; timestamp is the column's DEFAULT CURRENT_TIMESTAMP.
SampleRow(e, p, t) ==
    [timestamp |-> t, exp_number |-> e,
     temperature |-> Get(p, "temp"), uv1 |-> Get(p, "uv1"),
     photodiode |-> Get(p, "photodiode"),
     turbidity1 |-> Get(p, "turbidity"), turbidity2 |-> Get(p, "turbidity2"),
     rgb1_r |-> Get(p, "rgb1_r"), rgb1_g |-> Get(p, "rgb1_g"), rgb1_b |-> Get(p, "rgb1_b"),
     rgb2_r |-> Get(p, "rgb2_r"), rgb2_g |-> Get(p, "rgb2_g"), rgb2_b |-> Get(p, "rgb2_b"),
     uv_led_state |-> Get(p, "uvLed"), uv_intensity |-> Get(p, "uvIntensity"),
     pump1_state |-> Get(p, "pump"), pump2_state |-> Get(p, "pump2"),
     pump_speed |-> Get(p, "pumpSpeed"), flow_rate |-> Get(p, "flowRate")]

(***************************************************************************)
(* The main loop.                                                          *)
(***************************************************************************)

\* conn_sock.recv(4096) returns the non-empty chunk, which line then holds
Receives(chunk) ==
    /\ pc = "loop"
    /\ transport = "open"
    /\ nrecv < MaxChunks
    /\ nrecv' = nrecv + 1
    /\ line' = chunk
    /\ UNCHANGED <<conn_sock, conn, transport, store_up, now>>

\* `continue`, or the end of the loop body: back to recv
Continue(how) ==
    /\ out' = how
    /\ pc' = "loop"

\* the except clause: print the error and continue; nothing is rolled back
\* (variant: an except clause that ends the loop)
ExceptBreaks(e) == out' = e /\ pc' = "closed"
Except(e) == Continue(e)

\* parsed = json.loads(line), for a chunk that json.loads accepts
Parsed(chunk) == chunk.objs[1]

IsSetup(parsed) == Get(parsed, "type") = Str("setup")
IsStop(parsed) == Get(parsed, "type") = Str("stop")

\* `if not line.startswith("{"): continue`
Noise ==
    \E chunk \in Chunks :
        /\ Receives(chunk)
        /\ ~StartsWithBrace(chunk)
        /\ Continue("noise")
        /\ UNCHANGED <<tables, committed, current_exp_number, replaced>>

\* json.loads(line) raises
DecodeError ==
    \E chunk \in Chunks :
        /\ Receives(chunk)
        /\ StartsWithBrace(chunk) /\ ~Loads(chunk)
        /\ Except("JSONDecodeError")
        /\ UNCHANGED <<tables, committed, current_exp_number, replaced>>

\* the setup handler, from `exp = parsed["experiment"]` to its `continue`
SetupHandler(parsed) ==
    IF ~Has(parsed, "experiment") \/ ~Has(parsed.experiment, "expNo")
    THEN \* parsed["experiment"] or exp["expNo"] raises
         /\ Except("KeyError")
         /\ UNCHANGED <<tables, committed, current_exp_number>>
    ELSE LET exp == parsed.experiment
             rs == IF Has(exp, "reagents") THEN exp.reagents ELSE <<>>
             k == NamedPrefix(rs)
         IN  /\ current_exp_number' = exp.expNo
             /\ IF ~Has(exp, "operator") \/ ~Has(exp, "description")
                THEN \* the arguments of the INSERT raise
                     /\ Except("KeyError")
                     /\ UNCHANGED <<tables, committed>>
                ELSE IF ~store_up
                THEN /\ Except("OperationalError")
                     /\ UNCHANGED <<tables, committed>>
                ELSE IF UniqueViolation(experiments, exp.expNo)
                THEN /\ Except("IntegrityError")
                     /\ UNCHANGED <<tables, committed>>
                ELSE /\ experiments' = InsertExperiment(experiments, exp.expNo,
                                            exp.operator, exp.description, DatetimeNow(now))
                     /\ reagents' = InsertReagents(reagents, exp.expNo, rs, k)
                     /\ UNCHANGED sensor_log
                     /\ IF k < Len(rs)
                        THEN \* r["name"] raises: only the first commit was reached
                             /\ committed' = [View EXCEPT !.experiments = experiments']
                             /\ Except("KeyError")
                        ELSE /\ committed' = [View EXCEPT !.experiments = experiments',
                                                          !.reagents = reagents']
                             /\ Continue("setup")

\* history: the rows that this Setup leaves behind.  The identity it carries
\* is new (no row has it, and it is not the current one), the tracker holds
\* an identity before, and line 120 puts the new one in its place; the rows
\* left behind are the open rows of the identity that was current.
Replaces(parsed) ==
    IF /\ Has(parsed, "experiment") /\ Has(parsed.experiment, "expNo")
       /\ current_exp_number # None
       /\ parsed.experiment.expNo # current_exp_number
       /\ \A i \in DOMAIN experiments :
             experiments[i].exp_number # parsed.experiment.expNo
       /\ current_exp_number' = parsed.experiment.expNo
    THEN {i \in DOMAIN experiments :
             /\ experiments[i].exp_number = current_exp_number
             /\ experiments[i].end_time = None}
    ELSE {}

\* `if parsed.get("type") == "setup":`
Setup ==
    \E chunk \in Chunks :
        /\ Receives(chunk)
        /\ StartsWithBrace(chunk) /\ Loads(chunk)
        /\ IsSetup(Parsed(chunk))
        /\ SetupHandler(Parsed(chunk))
        /\ replaced' = replaced \cup Replaces(Parsed(chunk))

\* the stop handler
\* (variant: a handler that closes whatever row is open, tracker or not)
StopHandlerClosesOpenRows ==
    /\ experiments' =
          [i \in DOMAIN experiments |->
              IF experiments[i].end_time = None
              THEN [experiments[i] EXCEPT !.end_time = DatetimeNow(now)]
              ELSE experiments[i]]
    /\ UNCHANGED <<reagents, sensor_log>>
    /\ committed' = [View EXCEPT !.experiments = experiments']
    /\ current_exp_number' = None
    /\ Continue("stop")
StopHandler ==
    IF ~Truthy(current_exp_number)
    THEN /\ Continue("stop_idle")
         /\ UNCHANGED <<tables, committed, current_exp_number>>
    ELSE IF ~store_up
    THEN /\ Except("OperationalError")
         /\ UNCHANGED <<tables, committed, current_exp_number>>
    ELSE /\ experiments' = UpdateEndTime(experiments, current_exp_number, DatetimeNow(now))
         /\ UNCHANGED <<reagents, sensor_log>>
         /\ committed' = [View EXCEPT !.experiments = experiments']
         /\ current_exp_number' = None
         /\ Continue("stop")

\* `if parsed.get("type") == "stop":`
Stop ==
    \E chunk \in Chunks :
        /\ Receives(chunk)
        /\ StartsWithBrace(chunk) /\ Loads(chunk)
        /\ ~IsSetup(Parsed(chunk)) /\ IsStop(Parsed(chunk))
        /\ StopHandler
        /\ UNCHANGED replaced

\* the sensor data handler: the rest of the loop body
SampleHandler(parsed) ==
    /\ UNCHANGED current_exp_number
    /\ IF ~Truthy(current_exp_number)
       THEN /\ Continue("no_active")
            /\ UNCHANGED <<tables, committed>>
       ELSE IF ~store_up
       THEN /\ Except("OperationalError")
            /\ UNCHANGED <<tables, committed>>
       ELSE /\ sensor_log' = Append(sensor_log,
                                SampleRow(current_exp_number, parsed, DatetimeNow(now)))
            /\ UNCHANGED <<experiments, reagents>>
            /\ committed' = [View EXCEPT !.sensor_log = sensor_log']
            /\ Continue("logged")

\* whatever is neither a setup nor a stop
Sample ==
    \E chunk \in Chunks :
        /\ Receives(chunk)
        /\ StartsWithBrace(chunk) /\ Loads(chunk)
        /\ ~IsSetup(Parsed(chunk)) /\ ~IsStop(Parsed(chunk))
        /\ SampleHandler(Parsed(chunk))
        /\ UNCHANGED replaced

\* `if not data: break`, then conn_sock.close() and conn.close(); closing the
\* connection discards what was written and not committed
EndOfStream ==
    /\ pc = "loop"
    /\ transport = "eof"
    /\ pc' = "closed"
    /\ conn_sock' = "closed"
    /\ conn' = "closed"
    /\ experiments' = committed.experiments
    /\ reagents' = committed.reagents
    /\ sensor_log' = committed.sensor_log
    /\ UNCHANGED <<committed, current_exp_number, line, out, transport, store_up,
                   now, nrecv, replaced>>

\* conn_sock.recv raises (connection reset): recv is outside the try, the
\* process ends with the traceback and without reaching the close calls
RecvRaises ==
    /\ pc = "loop"
    /\ transport = "reset"
    /\ pc' = "crashed"
    /\ experiments' = committed.experiments
    /\ reagents' = committed.reagents
    /\ sensor_log' = committed.sensor_log
    /\ UNCHANGED <<committed, current_exp_number, line, out, conn_sock, conn,
                   transport, store_up, now, nrecv, replaced>>

(***************************************************************************)
(* The environment: the peer, the store and the clock.                     *)
(***************************************************************************)
PeerCloses ==
    /\ pc = "loop"
    /\ transport = "open"
    /\ transport' = "eof"
    /\ UNCHANGED <<tables, committed, current_exp_number, line, out, pc, conn_sock,
                   conn, store_up, now, nrecv, replaced>>

PeerResets ==
    /\ pc = "loop"
    /\ transport = "open"
    /\ transport' = "reset"
    /\ UNCHANGED <<tables, committed, current_exp_number, line, out, pc, conn_sock,
                   conn, store_up, now, nrecv, replaced>>

StoreLost ==
    /\ pc = "loop"
    /\ store_up
    /\ store_up' = FALSE
    /\ UNCHANGED <<tables, committed, current_exp_number, line, out, pc, conn_sock,
                   conn, transport, now, nrecv, replaced>>

\* the wall clock advances; it is taken never to step back
Tick ==
    /\ pc = "loop"
    /\ now < MaxNow
    /\ now' = now + 1
    /\ UNCHANGED <<tables, committed, current_exp_number, line, out, pc, conn_sock,
                   conn, transport, store_up, nrecv, replaced>>

Next ==
    \/ Noise
    \/ DecodeError
    \/ Setup
    \/ Stop
    \/ Sample
    \/ EndOfStream
    \/ PeerCloses
    \/ Tick

\* The session while the store answers every statement and the peer closes
\* the connection in an orderly way.
Spec == Init /\ [][Next]_vars

\* The session when the store can stop answering.
NextStore ==
    \/ Next
    \/ StoreLost

StoreSpec == Init /\ [][NextStore]_vars

\* The session when the peer can also reset the connection, over the chunks
\* that termination is about: noise, text that fails to parse, a Setup (sent
\* again, it is a duplicate), Setups on which the handler raises, a sample
\* (sent first, it has no experiment) and a Stop.  The loop is sequential
\* code and every handler returns: once recv is due to return the empty
\* read, the break is taken.
LiveChunks ==
    {[k |-> "noise"], [k |-> "malformed"],
     [k |-> "objects", objs |-> <<StopMsg, [temp |-> Num(25)]>>],
     [k |-> "objects", objs |-> <<StopMsg>>],
     [k |-> "objects", objs |-> <<[temp |-> Num(25)]>>]}
    \cup
    {[k |-> "objects", objs |-> <<SetupMsg(exp)>>] :
        exp \in {[expNo |-> Str("RX-1"), operator |-> Str("alice"),
                  description |-> Str("run")],
                 [expNo |-> Str("RX-2"), description |-> Str("run")],
                 [expNo |-> Str("RX-1"), operator |-> Str("alice"),
                  description |-> Str("run"), reagents |-> <<R1, RNoName>>]}}

Live == line' \in LiveChunks

NextLive ==
    \/ Noise /\ Live
    \/ DecodeError /\ Live
    \/ Setup /\ Live
    \/ Stop /\ Live
    \/ Sample /\ Live
    \/ EndOfStream
    \/ PeerCloses
    \/ PeerResets
    \/ RecvRaises
    \/ Tick

LiveSpec == Init /\ [][NextLive]_vars /\ WF_vars(EndOfStream)

(***************************************************************************)
(* Vocabulary of the properties.  A step of the loop is told from the      *)
(* chunk it received, not from the branch the code took.                   *)
(***************************************************************************)

\* this step is one pass of the loop body, over the chunk line'
Iteration == nrecv' = nrecv + 1

\* the chunk is the text of exactly one JSON object
OneObject(l) == l.k = "objects" /\ Len(l.objs) = 1

\* that object
Msg(l) == l.objs[1]

TypeOf(m) == IF "type" \in DOMAIN m THEN m.type ELSE None

\* this step handles a Setup, a Stop or a sample message
SetupStep == Iteration /\ OneObject(line') /\ TypeOf(Msg(line')) = Str("setup")
StopStep == Iteration /\ OneObject(line') /\ TypeOf(Msg(line')) = Str("stop")
SampleStep ==
    Iteration /\ OneObject(line') /\ TypeOf(Msg(line')) \notin {Str("setup"), Str("stop")}

\* the Setup message names its identity, operator and description, and every
\* reagent of its list (if it has one) has a name
WellFormedSetup(m) ==
    /\ "experiment" \in DOMAIN m
    /\ {"expNo", "operator", "description"} \subseteq DOMAIN m.experiment

ValidSetup(m) ==
    /\ WellFormedSetup(m)
    /\ "reagents" \in DOMAIN m.experiment =>
          \A i \in DOMAIN m.experiment.reagents : "name" \in DOMAIN m.experiment.reagents[i]

\* the rows of experiments that carry the identity e
RowsOf(exps, e) == {i \in DOMAIN exps : exps[i].exp_number = e}

\* the tracker as the specification speaks of it: Idle while it holds no
\* identity, Active from the Setup that sets one to the Stop that clears it
Idle == current_exp_number = None
Active == current_exp_number # None

\* the sensor_log column that each field of a sample message is stored in
ChannelOf ==
    [temp |-> "temperature", uv1 |-> "uv1", photodiode |-> "photodiode",
     turbidity |-> "turbidity1", turbidity2 |-> "turbidity2",
     rgb1_r |-> "rgb1_r", rgb1_g |-> "rgb1_g", rgb1_b |-> "rgb1_b",
     rgb2_r |-> "rgb2_r", rgb2_g |-> "rgb2_g", rgb2_b |-> "rgb2_b",
     uvLed |-> "uv_led_state", uvIntensity |-> "uv_intensity",
     pump |-> "pump1_state", pump2 |-> "pump2_state",
     pumpSpeed |-> "pump_speed", flowRate |-> "flow_rate"]

\* row stores message m under identity e: every channel holds the field of
\* its name, or NULL when the message has no such field
StoresSample(row, e, m) ==
    /\ row.exp_number = e
    /\ \A f \in DOMAIN ChannelOf :
          row[ChannelOf[f]] = IF f \in DOMAIN m THEN m[f] ELSE None

(***************************************************************************)
(* C1.  Every sensor_log row is inserted under the exp_number of an        *)
(* experiment that is active at that moment: at the step that appends the  *)
(* row, experiments holds a row with that exp_number whose end_time is     *)
(* still NULL.                                                             *)
(***************************************************************************)
C1_SampleRowReferencesActiveExperiment ==
    [][\A j \in DOMAIN sensor_log' :
          j > Len(sensor_log) =>
             \E i \in DOMAIN experiments :
                /\ experiments[i].exp_number = sensor_log'[j].exp_number
                /\ experiments[i].end_time = None]_vars

(***************************************************************************)
(* C2.  experiments never holds two rows with the same exp_number, and a   *)
(* Setup message (with operator and description) whose expNo is already    *)
(* the exp_number of a row is refused with the integrity error, adding no  *)
(* experiments row and no reagents row and changing no existing row.       *)
(***************************************************************************)
C2_DuplicateSetupRejected ==
    /\ [](\A i, j \in DOMAIN experiments :
             i # j => experiments[i].exp_number # experiments[j].exp_number)
    /\ [][(/\ SetupStep
           /\ WellFormedSetup(Msg(line'))
           /\ RowsOf(experiments, Msg(line').experiment.expNo) # {})
          => /\ out' = "IntegrityError"
             /\ experiments' = experiments
             /\ reagents' = reagents]_vars

(***************************************************************************)
(* C3.  After a valid Setup message whose expNo is in no experiments row,  *)
(* experiments holds exactly one row with that exp_number: it is new, has  *)
(* the submitted operator and description, a start_time and a NULL         *)
(* end_time; and the reagents rows with that exp_number are, in order, the *)
(* entries of the submitted list, with NULL for an omitted concentration   *)
(* (none for an empty or absent list).                                     *)
(***************************************************************************)
C3_SetupRoundTrip ==
    [][(/\ SetupStep
        /\ ValidSetup(Msg(line'))
        /\ RowsOf(experiments, Msg(line').experiment.expNo) = {})
       => LET exp == Msg(line').experiment
              rs == IF "reagents" \in DOMAIN exp THEN exp.reagents ELSE <<>>
              n == Len(experiments) + 1
          IN  /\ Len(experiments') = n
              /\ \A i \in DOMAIN experiments : experiments'[i] = experiments[i]
              /\ RowsOf(experiments', exp.expNo) = {n}
              /\ experiments'[n].operator = exp.operator
              /\ experiments'[n].description = exp.description
              /\ experiments'[n].start_time # None
              /\ experiments'[n].end_time = None
              /\ SelectSeq(reagents', LAMBDA r : r.exp_number = exp.expNo)
                    = [i \in 1..Len(rs) |->
                          [exp_number |-> exp.expNo,
                           reagent |-> rs[i].name,
                           concentration |-> IF "concentration" \in DOMAIN rs[i]
                                             THEN rs[i].concentration ELSE None]]
              /\ committed'.experiments = experiments'
              /\ committed'.reagents = reagents']_vars

\* a Setup with a list of two reagents, one without a concentration, was
\* just stored
C3_Witness ==
    /\ out = "setup"
    /\ OneObject(line)
    /\ "reagents" \in DOMAIN Msg(line).experiment
    /\ Len(Msg(line).experiment.reagents) = 2
    /\ Len(reagents) >= 2
    /\ reagents[Len(reagents)].concentration = None

(***************************************************************************)
(* C4.  A sample message handled while the tracker is Active adds exactly  *)
(* one sensor_log row, under the current identity, with every channel      *)
(* equal to the message's field of that name and NULL for the fields the   *)
(* message omits, and changes neither the current identity nor the         *)
(* experiments and reagents tables.                                        *)
(***************************************************************************)
C4_SampleWhileActiveStored ==
    [][(SampleStep /\ Active)
       => /\ Len(sensor_log') = Len(sensor_log) + 1
          /\ \A j \in DOMAIN sensor_log : sensor_log'[j] = sensor_log[j]
          /\ StoresSample(sensor_log'[Len(sensor_log')], current_exp_number, Msg(line'))
          /\ UNCHANGED <<current_exp_number, experiments, reagents>>]_vars

(***************************************************************************)
(* C5.  A sample message handled while the tracker is Idle is dropped: no  *)
(* table changes, nothing is committed and the tracker stays Idle.  And    *)
(* while no Setup message has been handled the tracker is Idle and         *)
(* sensor_log is empty: that holds initially and every step that is not a  *)
(* Setup keeps it.                                                         *)
(***************************************************************************)
C5_SampleWhileIdleDropped ==
    /\ Idle /\ sensor_log = <<>>
    /\ [][/\ (SampleStep /\ Idle) =>
                UNCHANGED <<tables, committed, current_exp_number>>
          /\ (~SetupStep /\ Idle /\ sensor_log = <<>>) =>
                (Idle /\ sensor_log = <<>>)']_vars

\* a sample was just dropped although an experiment had been run and stopped
C5_Witness ==
    /\ out = "no_active"
    /\ OneObject(line)
    /\ "temp" \in DOMAIN Msg(line)
    /\ Idle
    /\ sensor_log = <<>>
    /\ \E i \in DOMAIN experiments : experiments[i].end_time # None

(***************************************************************************)
(* C6.  A Stop message handled while the tracker is Active with an         *)
(* identity whose experiments row is open sets that row's end_time to a    *)
(* time that is not NULL and not before its start_time, leaves every other *)
(* row and column as it was, and clears the current identity.              *)
(***************************************************************************)
C6_StopClosesOpenExperiment ==
    [][(/\ StopStep
        /\ Active
        /\ \E i \in RowsOf(experiments, current_exp_number) :
              experiments[i].end_time = None)
       => /\ DOMAIN experiments' = DOMAIN experiments
          /\ \A i \in DOMAIN experiments :
                IF experiments[i].exp_number = current_exp_number
                   /\ experiments[i].end_time = None
                THEN /\ experiments'[i].end_time # None
                     /\ TextLeq(experiments[i].start_time, experiments'[i].end_time)
                     /\ experiments'[i] =
                           [experiments[i] EXCEPT !.end_time = experiments'[i].end_time]
                ELSE experiments'[i] = experiments[i]
          /\ current_exp_number' = None
          /\ UNCHANGED <<reagents, sensor_log>>]_vars

(***************************************************************************)
(* C7.  A chunk that is not the text of one JSON object (noise, malformed  *)
(* text after "{", or more than one object) changes no table, commits      *)
(* nothing and leaves the current identity alone, and the loop stays in    *)
(* the session, ready for the next chunk.                                  *)
(***************************************************************************)
C7_UndecodableChunkIgnored ==
    [][(Iteration /\ ~OneObject(line'))
       => /\ UNCHANGED <<tables, committed, current_exp_number>>
          /\ pc' = "loop"]_vars

\* two objects in one chunk were just refused while an experiment was active
C7_Witness ==
    /\ line.k = "objects"
    /\ Len(line.objs) = 2
    /\ out = "JSONDecodeError"
    /\ Truthy(current_exp_number)
    /\ pc = "loop"

(***************************************************************************)
(* C8.  Every message is all-or-nothing: the step that handles it either   *)
(* applies all of its effects (Setup: the experiments row, every reagents  *)
(* row and the new current identity, all committed; Stop: the end_time and *)
(* the cleared tracker; sample: one sensor_log row) or leaves the tables,  *)
(* the committed state and the current identity exactly as they were.      *)
(***************************************************************************)
C8_Dropped == UNCHANGED <<tables, committed, current_exp_number>>

C8_SetupApplied ==
    LET m == Msg(line')
    IN  /\ ValidSetup(m)
        /\ Len(experiments') = Len(experiments) + 1
        /\ experiments'[Len(experiments')].exp_number = m.experiment.expNo
        /\ Len(reagents') = Len(reagents)
              + (IF "reagents" \in DOMAIN m.experiment
                 THEN Len(m.experiment.reagents) ELSE 0)
        /\ current_exp_number' = m.experiment.expNo
        /\ committed' = View'

C8_StopApplied ==
    /\ \E i \in DOMAIN experiments : experiments'[i].end_time # experiments[i].end_time
    /\ current_exp_number' = None
    /\ committed' = View'

C8_SampleApplied ==
    /\ Len(sensor_log') = Len(sensor_log) + 1
    /\ committed' = View'

C8_AllOrNothing ==
    [][/\ SetupStep => (C8_SetupApplied \/ C8_Dropped)
       /\ StopStep => (C8_StopApplied \/ C8_Dropped)
       /\ SampleStep => (C8_SampleApplied \/ C8_Dropped)]_vars

(***************************************************************************)
(* C9.  Once a store operation has failed because the store is gone, the   *)
(* session loop is over: no further chunk is received.                     *)
(***************************************************************************)
C9_StoreFailureEndsSession ==
    [][out = "OperationalError" => ~Iteration]_vars

(***************************************************************************)
(* C10.  The loop ends exactly on transport closure: once recv is due to   *)
(* return the empty read, the loop exits and the socket and the store      *)
(* connection get closed; no pass of the loop body (whatever the chunk: a  *)
(* decode failure, a duplicate Setup, a sample without experiment) leaves  *)
(* the loop; and the loop is never left while the peer's side is open.     *)
(***************************************************************************)
C10_LoopEndsExactlyOnClosure ==
    /\ (transport = "eof") ~> (pc = "closed" /\ conn_sock = "closed" /\ conn = "closed")
    /\ [][Iteration => pc' = "loop"]_vars
    /\ [](pc # "loop" => transport # "open")
    /\ [](pc = "closed" => (transport = "eof" /\ conn_sock = "closed" /\ conn = "closed"))

\* the session was closed at end-of-stream after it had survived a duplicate
\* Setup
C10_Witness ==
    /\ pc = "closed"
    /\ conn_sock = "closed"
    /\ conn = "closed"
    /\ out = "IntegrityError"

(***************************************************************************)
(* One message per read.  State is what the claims about message order     *)
(* speak of: the tables, what is committed, and the current identity.      *)
(* Handled(s, m, t) is the state in which the loop body leaves s when its  *)
(* read holds the text of the one object m, at clock t, while the store    *)
(* answers: the three handlers as functions of the state.                  *)
(***************************************************************************)
State ==
    [experiments |-> experiments, reagents |-> reagents, sensor_log |-> sensor_log,
     committed |-> committed, current_exp_number |-> current_exp_number]

\* conn.commit() in state s: everything written so far becomes durable
Commit(s) ==
    [s EXCEPT !.committed = [experiments |-> s.experiments, reagents |-> s.reagents,
                             sensor_log |-> s.sensor_log]]

HandledSetup(s, m, t) ==
    IF ~Has(m, "experiment") \/ ~Has(m.experiment, "expNo")
    THEN s
    ELSE LET exp == m.experiment
             rs == IF Has(exp, "reagents") THEN exp.reagents ELSE <<>>
             k == NamedPrefix(rs)
             s1 == [s EXCEPT !.current_exp_number = exp.expNo]
             s2 == Commit([s1 EXCEPT !.experiments =
                              InsertExperiment(s.experiments, exp.expNo, exp.operator,
                                               exp.description, DatetimeNow(t))])
             s3 == [s2 EXCEPT !.reagents = InsertReagents(s.reagents, exp.expNo, rs, k)]
         IN  IF ~Has(exp, "operator") \/ ~Has(exp, "description") THEN s1
             ELSE IF UniqueViolation(s.experiments, exp.expNo) THEN s1
             ELSE IF k < Len(rs) THEN s3
             ELSE Commit(s3)

HandledStop(s, t) ==
    IF ~Truthy(s.current_exp_number)
    THEN s
    ELSE [Commit([s EXCEPT !.experiments =
                     UpdateEndTime(s.experiments, s.current_exp_number, DatetimeNow(t))])
            EXCEPT !.current_exp_number = None]

HandledSample(s, m, t) ==
    IF ~Truthy(s.current_exp_number)
    THEN s
    ELSE Commit([s EXCEPT !.sensor_log =
                    Append(s.sensor_log, SampleRow(s.current_exp_number, m, DatetimeNow(t)))])

Handled(s, m, t) ==
    IF IsSetup(m) THEN HandledSetup(s, m, t)
    ELSE IF IsStop(m) THEN HandledStop(s, t)
    ELSE HandledSample(s, m, t)

\* the messages of a sequence, handled one after the other
RECURSIVE HandledAll(_, _, _)
HandledAll(s, ms, t) ==
    IF ms = <<>> THEN s ELSE HandledAll(Handled(s, Head(ms), t), Tail(ms), t)

\* Handled agrees with the loop body on every read of one object
OneObjectReadIsHandled ==
    [][(Iteration /\ OneObject(line')) => State' = Handled(State, Msg(line'), now)]_vars

(***************************************************************************)
(* C11.  The state after a read does not depend on how the transport cut   *)
(* the messages into reads: the pass of the loop over a read that holds    *)
(* the texts of several messages ends in the state that handling them one  *)
(* per read, in order, ends in; and when a message arrives in two          *)
(* consecutive reads, the pass over the second read ends in the state that *)
(* handling the message (once) ends in.                                    *)
(***************************************************************************)
C11_SplitOfReadsIrrelevant ==
    [][/\ (Iteration /\ line'.k = "objects")
            => State' = HandledAll(State, line'.objs, now)
       /\ (Iteration /\ line.k = "head" /\ line'.k = "tail" /\ line'.of = line.of)
            => State' = Handled(State, line'.of, now)]_vars

(***************************************************************************)
(* C12.  A Setup message that is refused with the duplicate-identity       *)
(* (integrity) error leaves the current identity as it was: none when the  *)
(* tracker was Idle, the active identity when it was Active.  (A sample    *)
(* that follows it in the Idle state is then dropped, by C5.)              *)
(***************************************************************************)
C12_DuplicateSetupKeepsTracker ==
    [][(SetupStep /\ out' = "IntegrityError") => UNCHANGED current_exp_number]_vars

(***************************************************************************)
(* C13.  At every message boundary the store has no uncommitted write.     *)
(* Every state of the model is a message boundary (a step is one whole     *)
(* pass of the loop, or the close): in every state the tables as the       *)
(* connection sees them are the tables as committed.  Then the close       *)
(* loses no row, and no later commit makes a failed message's row durable. *)
(***************************************************************************)
C13_NoUncommittedWriteAtBoundary == committed = View

(***************************************************************************)
(* C14.  A Setup message whose identity is new (in no experiments row and  *)
(* not the current one), handled while the tracker is Active, makes that   *)
(* identity the current one and closes no row; and a row that was open     *)
(* under the identity so replaced has a NULL end_time in every later       *)
(* state of the session.                                                   *)
(***************************************************************************)
C14_ReplacedExperimentStaysOpen ==
    /\ [][(/\ SetupStep
           /\ Active
           /\ "experiment" \in DOMAIN Msg(line')
           /\ "expNo" \in DOMAIN Msg(line').experiment
           /\ Msg(line').experiment.expNo # current_exp_number
           /\ RowsOf(experiments, Msg(line').experiment.expNo) = {})
          => /\ current_exp_number' = Msg(line').experiment.expNo
             /\ \A i \in DOMAIN experiments :
                   experiments'[i].end_time = experiments[i].end_time]_vars
    /\ [](\A i \in replaced : experiments[i].end_time = None)

(***************************************************************************)
(* C15.  A Setup step that adds an experiments row leaves the tracker      *)
(* Active with that row's exp_number as the current identity; and when the *)
(* last pass of the loop was a Setup that was stored, a sample handled     *)
(* next adds a sensor_log row with the new row's exp_number, and a Stop    *)
(* handled next sets the new row's end_time.  For every value of expNo.    *)
(***************************************************************************)
\* the last pass of the loop stored a Setup: its row is the last of experiments
C15_SetupJustStored ==
    /\ OneObject(line)
    /\ TypeOf(Msg(line)) = Str("setup")
    /\ out = "setup"

C15_SetupMakesIdentityCurrent ==
    [][/\ (SetupStep /\ Len(experiments') = Len(experiments) + 1)
            => /\ current_exp_number' = experiments'[Len(experiments')].exp_number
               /\ Active'
       /\ (C15_SetupJustStored /\ SampleStep)
            => /\ Len(sensor_log') = Len(sensor_log) + 1
               /\ sensor_log'[Len(sensor_log')].exp_number
                     = experiments[Len(experiments)].exp_number
       /\ (C15_SetupJustStored /\ StopStep)
            => experiments'[Len(experiments)].end_time # None]_vars

(***************************************************************************)
(* C16.  A Stop message handled while the tracker is Idle is a no-op: the  *)
(* three tables are as before (no end_time is set or set again), nothing   *)
(* is committed and the tracker stays Idle.                                *)
(***************************************************************************)
C16_StopWhileIdleIsNoOp ==
    [][(StopStep /\ Idle) => (UNCHANGED <<tables, committed>> /\ Idle')]_vars

\* a Stop was just ignored in the Idle state, a second later than the Stop
\* that closed one experiment, while another experiment's row is still open
C16_Witness ==
    /\ OneObject(line)
    /\ TypeOf(Msg(line)) = Str("stop")
    /\ out = "stop_idle"
    /\ Idle
    /\ now = 1
    /\ \E i \in DOMAIN experiments : experiments[i].end_time = DatetimeNow(0)
    /\ \E i \in DOMAIN experiments : experiments[i].end_time = None

(***************************************************************************)
(* C17.  An object whose type is neither "setup" nor "stop" and which has  *)
(* none of the known sensor fields is not a sample: the pass of the loop   *)
(* that handles it adds no sensor_log row, whatever the tracker's state.   *)
(***************************************************************************)
C17_UnrecognizedObjectNotStored ==
    [][(SampleStep /\ DOMAIN Msg(line') \cap DOMAIN ChannelOf = {})
          => sensor_log' = sensor_log]_vars

(***************************************************************************)
(* C18.  The store is append-only across every step of the session: every  *)
(* row of sensor_log and of reagents is there, unchanged, after the step;  *)
(* every row of experiments is there after the step, unchanged but for its *)
(* end_time; and reagents rows are added only by the Setup step that adds  *)
(* their experiment's row, never later.                                    *)
(***************************************************************************)
C18_KeepsRows(old, new) ==
    /\ Len(new) >= Len(old)
    /\ \A i \in DOMAIN old : new[i] = old[i]

C18_AppendOnly ==
    /\ C18_KeepsRows(sensor_log, sensor_log')
    /\ C18_KeepsRows(reagents, reagents')
    /\ Len(experiments') >= Len(experiments)
    /\ \A i \in DOMAIN experiments :
          experiments'[i] = [experiments[i] EXCEPT !.end_time = experiments'[i].end_time]
    /\ \A j \in DOMAIN reagents' :
          j > Len(reagents) =>
             /\ SetupStep
             /\ Len(experiments') = Len(experiments) + 1
             /\ reagents'[j].exp_number = experiments'[Len(experiments')].exp_number

C18_StoreAppendOnly == [][C18_AppendOnly]_vars

(***************************************************************************)
(* C19.  An experiment is closed at most once: an experiments row whose    *)
(* end_time is set keeps that end_time in every later step of the session. *)
(***************************************************************************)
C19_ClosedAtMostOnce ==
    [][\A i \in DOMAIN experiments :
          experiments[i].end_time # None =>
             /\ i \in DOMAIN experiments'
             /\ experiments'[i].end_time = experiments[i].end_time]_vars

(***************************************************************************)
(* C20.  Referential integrity in every reachable state: when the tracker  *)
(* holds an identity, some experiments row has it as exp_number; and every *)
(* sensor_log row's exp_number is the exp_number of some experiments row.  *)
(***************************************************************************)
C20_ReferentialIntegrity ==
    /\ current_exp_number # None => RowsOf(experiments, current_exp_number) # {}
    /\ \A j \in DOMAIN sensor_log : RowsOf(experiments, sensor_log[j].exp_number) # {}

====
